---- MODULE Spec2Model ----
(***************************************************************************)
(* A model of contrib/github_buildbot.py: the GitHub service-hook          *)
(* listener that mirrors a repository (github_sync / fetch / create_repo), *)
(* extracts change records from the hook payload (process_change) and      *)
(* delivers them to the buildmaster over one PB connection (connected /    *)
(* addChange / connectFailed), and of buildbot/status/twitter.py: the      *)
(* status receiver that posts build results (buildFinished /              *)
(* buildMessage).                                                          *)
(*                                                                         *)
(* Strings the code inspects character by character (the ref name and the  *)
(* new revision, both matched against regular expressions) are sequences   *)
(* of one-character strings.  Directories are sequences of path            *)
(* components, and a path of the program is resolved against the process   *)
(* working directory when the configured root directory is relative.       *)
(***************************************************************************)
EXTENDS Integers, Sequences, FiniteSets, TLC

\* ------------------------------------------------------------------ bounds

\* Number of hook requests the host may receive in the concurrent specification.
NumReq == 2

\* Largest number of commits in one payload.
MaxCommits == 2

\* Number of hexadecimal digits of a revision in a payload.
RevLen == 2

\* Largest number of finished builds of one builder.
MaxBuilds == 2

Req == 1..NumReq

\* ----------------------------------------------------------------- strings

NL == "\n"

RefsHeads == <<"r","e","f","s","/","h","e","a","d","s","/">>

RefsTags == <<"r","e","f","s","/","t","a","g","s","/">>

\* The ref names a provider sends: a branch, a branch with a slash in its
\* name, a tag, the bare prefix, and a ref that only contains the prefix.
RefNames ==
  { RefsHeads \o <<"m">>,
    RefsHeads \o <<"m","/","x">>,
    RefsTags \o <<"v">>,
    RefsHeads,
    <<"x">> \o RefsHeads \o <<"m">> }

HexDigits == {"0", "a"}

Revisions == [1..RevLen -> HexDigits]

\* Python's "$" matches at the end of the string and before one trailing
\* newline: the text a pattern ending in "$" has to cover.
BeforeDollar(s) ==
  IF Len(s) > 0 /\ s[Len(s)] = NL THEN SubSeq(s, 1, Len(s) - 1) ELSE s

\* re.match(r"^refs\/heads\/(.+)$", refname): the match succeeds iff the text
\* starts with refs/heads/ and at least one character other than a newline
\* follows, up to the end.
BranchMatch(refname) ==
  LET n == Len(RefsHeads)
      rest == BeforeDollar(SubSeq(refname, n + 1, Len(refname)))
  IN /\ Len(refname) > n
     /\ SubSeq(refname, 1, n) = RefsHeads
     /\ Len(rest) >= 1
     /\ \A i \in 1..Len(rest) : rest[i] # NL

\* match.group(1): the branch name.
BranchGroup(refname) ==
  BeforeDollar(SubSeq(refname, Len(RefsHeads) + 1, Len(refname)))

\* re.match(r"^0*$", newrev), with the pattern narrowed to a single zero.
ZeroMatchOneDigit(newrev) ==
  BeforeDollar(newrev) = <<"0">>

\* re.match(r"^0*$", newrev): only zeros (possibly none) up to the end.
ZeroMatch(newrev) ==
  LET body == BeforeDollar(newrev)
  IN \A i \in 1..Len(body) : body[i] = "0"

\* ---------------------------------------------------------------- payloads

Owner == "ktf"

Repos == {"r1", "r2"}

\* A raw commit descriptor of the payload.
Commit(id, added, modified, removed) ==
  [ id |-> id,
    message |-> "msg",
    author |-> [name |-> "Ann", email |-> "ann@x.com"],
    url |-> <<"http://x/", id>>,
    added |-> added,
    modified |-> modified,
    removed |-> removed ]

\* The commits a payload is built from: one touching a single path, one
\* listing the same paths in more than one of its three lists, one touching
\* nothing.
CommitSet ==
  { Commit("c1", <<"a.py">>, <<>>, <<>>),
    Commit("c2", <<"a.py">>, <<"a.py", "b.py">>, <<"b.py">>),
    Commit("c3", <<>>, <<>>, <<>>) }

SeqsUpTo(S, n) == UNION { [1..k -> S] : k \in 0..n }

\* form: "ok" for a complete payload, "badjson" for a body json.loads or the
\* repository lookups reject, "nokeys" for a payload without ref/after/commits.
Payload(form, repo, priv, ref, after, commits) ==
  [ form |-> form, owner |-> Owner, repo |-> repo, private |-> priv,
    ref |-> ref, after |-> after, commits |-> commits ]

NoPayload == Payload("badjson", "r1", FALSE, <<>>, <<>>, <<>>)

\* Every payload shape, for one repository.
RichPayloads ==
  { Payload("ok", "r1", priv, ref, after, commits) :
      priv \in BOOLEAN, ref \in RefNames, after \in Revisions,
      commits \in SeqsUpTo(CommitSet, MaxCommits) }
  \cup { NoPayload, Payload("nokeys", "r1", FALSE, <<>>, <<>>, <<>>) }

\* Pushes to a branch, for every repository and private flag.
PushPayloads ==
  { Payload("ok", repo, priv, RefsHeads \o <<"m">>, [i \in 1..RevLen |-> "a"],
            commits) :
      repo \in Repos, priv \in BOOLEAN,
      commits \in { <<Commit("c1", <<"a.py">>, <<>>, <<>>)>>,
                    <<Commit("c1", <<"a.py">>, <<>>, <<>>),
                      Commit("c3", <<>>, <<>>, <<>>)>> } }

\* -------------------------------------------------------------- extraction

\* One change dictionary, as built in the loop body of process_change.
MakeChange(commit, branch) ==
  [ revision |-> commit.id,
    comments |-> commit.message,
    branch |-> branch,
    who |-> <<commit.author.name, " <", commit.author.email, ">">>,
    files |-> commit.added \o commit.modified \o commit.removed,
    links |-> <<commit.url>> ]

Reverse(s) == [i \in 1..Len(s) |-> s[Len(s) + 1 - i]]

\* The loop of process_change with changes.insert(0, change) for append.
ChangesOfReversed(payload, branch) ==
  IF ZeroMatch(payload.after)
    THEN <<>>
    ELSE Reverse([j \in 1..Len(payload.commits) |->
                    MakeChange(payload.commits[j], branch)])

\* The list "changes" process_change builds for a payload on a branch.
ChangesOf(payload, branch) ==
  IF ZeroMatch(payload.after)
    THEN <<>>
    ELSE [j \in 1..Len(payload.commits) |-> MakeChange(payload.commits[j], branch)]

\* ------------------------------------------------------------------- state

VARIABLES
  threaded,  \* the host runs render_POST of different requests in parallel threads
  reqs,      \* the requests the host will receive
  rich,      \* the payloads are drawn from RichPayloads (else PushPayloads)
  rootAbs,   \* options.dir (local_dir) is an absolute path
  dirs,      \* the directories that exist on disk (absolute paths)
  cwd,       \* the working directory of the process (os.chdir)
  private,   \* the attribute self.private
  reactor,   \* the request whose render_POST occupies the reactor thread, or 0
  pc,        \* where each request's render_POST stands
  payload,   \* each request's decoded payload
  cmd,       \* each request's external git command
  exc,       \* the exception render_POST caught for the request, or "none"
  changes,   \* the list process_change built for the request
  conn,      \* the TCP connection of the request's PBClientFactory
  opened,    \* number of reactor.connectTCP calls made for the request
  closes,    \* number of loseConnection calls made for the request
  login,     \* the state of factory.login for the request
  iter,      \* number of items the iterator changei has yielded
  sent,      \* the changes passed to callRemote('addChange', ...), in order
  answer,    \* the state of each of those calls
  dres,      \* the result at the end of the request's Deferred chain
  log,       \* the calls each request made to the logging module
  notifier,  \* the TwitterNotifier: its mode, builders and categories
  builds     \* the finished builds of each builder, with what buildFinished did

vars ==
  << threaded, reqs, rich, rootAbs, dirs, cwd, private, reactor, pc, payload,
     cmd, exc, changes, conn, opened, closes, login, iter, sent, answer, dres,
     log, notifier, builds >>

\* What the hook listener never writes: the host, the configuration, and
\* the state of the status notifier.
hostVars == << threaded, reqs, rich, rootAbs, notifier, builds >>

deliveryVars == << conn, opened, closes, login, iter, sent, answer, dres >>

\* --------------------------------------------------------------- file system

\* The directory the process is started in.
StartDir == <<"home">>

\* options.dir, as a sequence of components.
RootPath == <<"mirrors">>

\* tmp + "/" + repo + ".git": the component repo stands for repo.git.
RepoDir(repo) == RootPath \o <<repo>>

\* The absolute directory a path of the program names when the process is
\* in directory c.
Resolve(c, p) == IF rootAbs THEN p ELSE c \o p

Prefixes(p) == { SubSeq(p, 1, k) : k \in 1..Len(p) }

\* A directory that holds a mirror: only clones create directories named
\* after a repository.
IsRepo(d) == d \in dirs /\ Len(d) > 0 /\ d[Len(d)] \in Repos

\* ------------------------------------------------------------------ logging

LogEntry(level, text, detail) == <<level, text, detail>>

Logged(r, entries) == log' = [log EXCEPT ![r] = @ \o entries]

\* The except clause of render_POST: the exception is logged and the
\* request handler returns.
Caught(r, e, before) ==
  /\ pc' = [pc EXCEPT ![r] = "caught"]
  /\ exc' = [exc EXCEPT ![r] = e]
  /\ Logged(r, before \o << LogEntry("error", "Encountered an exception:", e) >>)
  /\ reactor' = 0

\* ------------------------------------------------------------------- commands

\* status: the exit status of the command, -1 until it has exited.
NoCmd ==
  [kind |-> "none", url |-> <<>>, arg |-> <<>>, path |-> <<>>, status |-> -1]

\* create_repo with the test of self.private negated.
CloneUrlInverted(priv, user, repo) ==
  IF ~priv
    THEN <<"git@", "github.com", ":", user, "/", repo, ".git">>
    ELSE <<"git://", "github.com", "/", user, "/", repo, ".git">>

\* The clone URL create_repo builds.
CloneUrl(priv, user, repo) ==
  IF priv
    THEN <<"git@", "github.com", ":", user, "/", repo, ".git">>
    ELSE <<"git://", "github.com", "/", user, "/", repo, ".git">>

\* ----------------------------------------------------------------- render_POST

\* The payloads the provider sends.
Payloads == IF rich THEN RichPayloads ELSE PushPayloads

\* render_POST up to the call of github_sync: the payload is decoded and
\* the private flag is stored on the resource.
Receive(r) ==
  /\ r \in reqs
  /\ pc[r] = "idle"
  /\ threaded \/ reactor = 0
  /\ \E p \in Payloads :
       /\ payload' = [payload EXCEPT ![r] = p]
       /\ IF p.form = "badjson"
            THEN /\ Caught(r, "ValueError", <<>>)
                 /\ UNCHANGED private
            ELSE /\ private' = p.private
                 /\ pc' = [pc EXCEPT ![r] = "parsed"]
                 /\ reactor' = IF threaded THEN 0 ELSE r
                 /\ Logged(r, << LogEntry("debug", "Payload: ", "payload") >>)
                 /\ UNCHANGED exc
  /\ UNCHANGED << hostVars, dirs, cwd, cmd, changes, deliveryVars >>

\* github_sync, and fetch or create_repo up to the start of the command.
SyncStart(r) ==
  /\ pc[r] = "parsed"
  /\ LET repo == payload[r].repo
         repodir == RepoDir(repo)
         inRepo == Resolve(cwd, repodir)
         inRepoAgain == Resolve(inRepo, repodir)
     IN IF Resolve(cwd, RootPath) \notin dirs
          THEN /\ Caught(r, "RootMissing", <<>>)
               /\ UNCHANGED << cwd, cmd >>
          ELSE IF inRepo \in dirs
            THEN \* os.chdir(repodir) in github_sync, and again in fetch
                 IF inRepoAgain \in dirs
                   THEN /\ cwd' = inRepoAgain
                        /\ cmd' = [cmd EXCEPT ![r] =
                                     [kind |-> "fetch", url |-> <<>>,
                                      arg |-> repodir, path |-> <<>>,
                                      status |-> -1]]
                        /\ pc' = [pc EXCEPT ![r] = "launch"]
                        /\ Logged(r, << LogEntry("info", "Fetching changes from github to: ", repo) >>)
                        /\ UNCHANGED << exc, reactor >>
                   ELSE /\ cwd' = inRepo
                        /\ Caught(r, "OSError", <<>>)
                        /\ UNCHANGED cmd
            ELSE \* create_repo: the URL, then os.chdir(tmp)
                 /\ cwd' = Resolve(cwd, RootPath)
                 /\ cmd' = [cmd EXCEPT ![r] =
                              [kind |-> "clone",
                               url |-> CloneUrl(private, payload[r].owner, repo),
                               arg |-> repodir, path |-> <<>>, status |-> -1]]
                 /\ pc' = [pc EXCEPT ![r] = "launch"]
                 /\ Logged(r, << LogEntry("info", "Clone bare repository: ", repo) >>)
                 /\ UNCHANGED << exc, reactor >>
  /\ UNCHANGED << hostVars, dirs, private, payload, changes, deliveryVars >>

\* commands.getstatusoutput(cmd) starts the git process in the working
\* directory of that moment: fetch works on the repository it is started in,
\* clone on the directory its argument names.
Launch(r) ==
  /\ pc[r] = "launch"
  /\ cmd' = [cmd EXCEPT ![r].path =
               IF cmd[r].kind = "fetch" THEN cwd ELSE Resolve(cwd, cmd[r].arg)]
  /\ pc' = [pc EXCEPT ![r] = "running"]
  /\ UNCHANGED << hostVars, dirs, cwd, private, reactor, payload, exc, changes,
                  deliveryVars, log >>

\* The same, with a nonzero exit status ignored.
CmdExitIgnoringStatus(r, status) ==
  /\ pc[r] = "running"
  /\ status = 0 => cmd[r].kind = "clone" \/ IsRepo(cmd[r].path)
  /\ dirs' = IF cmd[r].kind = "clone" /\ status = 0
               THEN dirs \cup Prefixes(cmd[r].path) ELSE dirs
  /\ cmd' = [cmd EXCEPT ![r].status = status]
  /\ pc' = [pc EXCEPT ![r] = "synced"]
  /\ UNCHANGED << exc, reactor, log >>
  /\ UNCHANGED << hostVars, cwd, private, payload, changes, deliveryVars >>

\* The git process exits: status 0 lets github_sync return, any other status
\* is logged with the output and raised as a RuntimeError.  A successful
\* clone has created the mirror and the directories leading to it; fetch
\* can only succeed inside a repository.
CmdExit(r, status) ==
  /\ pc[r] = "running"
  /\ status = 0 => cmd[r].kind = "clone" \/ IsRepo(cmd[r].path)
  /\ cmd' = [cmd EXCEPT ![r].status = status]
  /\ IF status = 0
       THEN /\ dirs' = IF cmd[r].kind = "clone"
                         THEN dirs \cup Prefixes(cmd[r].path) ELSE dirs
            /\ pc' = [pc EXCEPT ![r] = "synced"]
            /\ UNCHANGED << exc, reactor, log >>
       ELSE /\ Caught(r, IF cmd[r].kind = "clone" THEN "CloneFailed" ELSE "FetchFailed",
                      << LogEntry("error", "output", cmd[r].kind) >>)
            /\ UNCHANGED dirs
  /\ UNCHANGED << hostVars, cwd, private, payload, changes, deliveryVars >>

\* -------------------------------------------------------------- process_change

\* process_change: the ref and revision tests, the loop over the commits,
\* and, when there are changes, the login and the connection to the master.
ProcessChange(r) ==
  /\ pc[r] = "synced"
  /\ LET p == payload[r]
         chs == ChangesOf(p, BranchGroup(p.ref))
         deleted == IF ZeroMatch(p.after)
                      THEN << LogEntry("info", "Branch deleted, ignoring", "") >>
                      ELSE <<>>
     IN IF p.form = "nokeys"
          THEN /\ Caught(r, "KeyError", <<>>)
               /\ UNCHANGED << changes, deliveryVars >>
          ELSE IF ~BranchMatch(p.ref)
            THEN \* the message is logged, then match.group(1) is evaluated
                 \* on None
                 /\ Caught(r, "AttributeError",
                           << LogEntry("info", "Ignoring refname: Not a branch", "") >>)
                 /\ UNCHANGED << changes, deliveryVars >>
            ELSE /\ changes' = [changes EXCEPT ![r] = chs]
                 /\ pc' = [pc EXCEPT ![r] = "returned"]
                 /\ reactor' = 0
                 /\ UNCHANGED exc
                 /\ IF chs = <<>>
                      THEN /\ Logged(r, deleted \o << LogEntry("warning", "No changes found", "") >>)
                           /\ UNCHANGED deliveryVars
                      ELSE /\ Logged(r, deleted)
                           /\ login' = [login EXCEPT ![r] = "pending"]
                           /\ dres' = [dres EXCEPT ![r] = "pending"]
                           /\ conn' = [conn EXCEPT ![r] = "connecting"]
                           /\ opened' = [opened EXCEPT ![r] = @ + 1]
                           /\ UNCHANGED << closes, iter, sent, answer >>
  /\ UNCHANGED << hostVars, dirs, cwd, private, payload, cmd >>

\* -------------------------------------------------------------------- delivery

\* A callback of the reactor runs when no render_POST occupies the reactor
\* thread.
ReactorFree == threaded \/ reactor = 0

\* connectFailed returning None: the Deferred goes on with its callbacks,
\* and connected sends the first change.
ConnectFailedSwallowed(r) ==
  /\ Logged(r, << LogEntry("error", "Could not connect to master: ", "") >>)
  /\ iter' = [iter EXCEPT ![r] = @ + 1]
  /\ sent' = [sent EXCEPT ![r] = Append(@, changes[r][1])]
  /\ answer' = [answer EXCEPT ![r] = Append(@, "sent")]
  /\ UNCHANGED << closes, dres >>

\* connectFailed, the errback of the login Deferred: it logs and returns
\* the error, so connected, added after it, does not run.
ConnectFailed(r) ==
  /\ Logged(r, << LogEntry("error", "Could not connect to master: ", "") >>)
  /\ dres' = [dres EXCEPT ![r] = "failure"]
  /\ UNCHANGED << closes, iter, sent, answer >>

\* addChange written as a loop that calls callRemote for every remaining
\* change without waiting for the answers.
AddChangeAll(r, ans) ==
  LET rest == SubSeq(changes[r], iter[r] + 1, Len(changes[r]))
  IN IF rest # <<>>
       THEN /\ iter' = [iter EXCEPT ![r] = Len(changes[r])]
            /\ sent' = [sent EXCEPT ![r] = @ \o rest]
            /\ answer' = [answer EXCEPT ![r] = ans \o [i \in 1..Len(rest) |-> "sent"]]
            /\ Logged(r, << LogEntry("debug", "addChange", "") >>)
            /\ UNCHANGED << conn, closes, dres >>
       ELSE /\ conn' = [conn EXCEPT ![r] = "closed"]
            /\ closes' = [closes EXCEPT ![r] = @ + 1]
            /\ dres' = [dres EXCEPT ![r] = "success"]
            /\ answer' = [answer EXCEPT ![r] = ans]
            /\ Logged(r, << LogEntry("debug", "addChange", "") >>)
            /\ UNCHANGED << iter, sent >>

\* addChange reading the list from an attribute of the resource that every
\* process_change overwrites: the list of the latest event with changes.
AddChangeShared(r, ans) ==
  LET q == CHOOSE q \in Req :
             /\ changes[q] # <<>>
             /\ \A p \in Req : changes[p] # <<>> => p <= q
      list == changes[q]
  IN IF iter[r] < Len(list)
       THEN /\ iter' = [iter EXCEPT ![r] = @ + 1]
            /\ sent' = [sent EXCEPT ![r] = Append(@, list[iter[r] + 1])]
            /\ answer' = [answer EXCEPT ![r] = Append(ans, "sent")]
            /\ Logged(r, << LogEntry("debug", "addChange", "") >>)
            /\ UNCHANGED << conn, closes, dres >>
       ELSE /\ conn' = [conn EXCEPT ![r] = "closed"]
            /\ closes' = [closes EXCEPT ![r] = @ + 1]
            /\ dres' = [dres EXCEPT ![r] = "success"]
            /\ answer' = [answer EXCEPT ![r] = ans]
            /\ Logged(r, << LogEntry("debug", "addChange", "") >>)
            /\ UNCHANGED << iter, sent >>

\* addChange: the next change of the iterator is sent with callRemote, and
\* addChange is the callback of that call; when the iterator is exhausted
\* the connection is closed.  ans is the state of the calls made so far.
AddChange(r, ans) ==
  IF iter[r] < Len(changes[r])
    THEN LET change == changes[r][iter[r] + 1]
         IN /\ iter' = [iter EXCEPT ![r] = @ + 1]
            /\ sent' = [sent EXCEPT ![r] = Append(@, change)]
            /\ answer' = [answer EXCEPT ![r] = Append(ans, "sent")]
            /\ Logged(r, << LogEntry("debug", "addChange", ""),
                            LogEntry("info", "New revision: ", change.revision) >>)
            /\ UNCHANGED << conn, closes, dres >>
    ELSE /\ conn' = [conn EXCEPT ![r] = "closed"]
         /\ closes' = [closes EXCEPT ![r] = @ + 1]
         /\ dres' = [dres EXCEPT ![r] = "success"]
         /\ answer' = [answer EXCEPT ![r] = ans]
         /\ Logged(r, << LogEntry("debug", "addChange", "") >>)
         /\ UNCHANGED << iter, sent >>

\* connected, the callback of the login Deferred.
Connected(r) == AddChange(r, answer[r])

\* The call's Deferred with addBoth in place of addCallback: an error
\* answer runs addChange like an acknowledgment.
CallFailedContinues(r, ans) == AddChange(r, ans)

\* A callRemote Deferred fires with an error.  Its only callback is
\* addChange, added with addCallback, so nothing of the program runs: the
\* failure passes to the end of the chain.
CallFailed(r, ans) ==
  /\ dres' = [dres EXCEPT ![r] = "failure"]
  /\ answer' = [answer EXCEPT ![r] = ans]
  /\ UNCHANGED << conn, closes, iter, sent, log >>

\* The TCP connection cannot be established.
ConnectFail(r) ==
  /\ ReactorFree
  /\ conn[r] = "connecting"
  /\ conn' = [conn EXCEPT ![r] = "refused"]
  /\ login' = [login EXCEPT ![r] = "failed"]
  /\ ConnectFailed(r)
  /\ UNCHANGED << hostVars, dirs, cwd, private, reactor, pc, payload, cmd, exc,
                  changes, opened >>

\* The TCP connection is established; the login exchange starts.
ConnectOk(r) ==
  /\ ReactorFree
  /\ conn[r] = "connecting"
  /\ conn' = [conn EXCEPT ![r] = "up"]
  /\ UNCHANGED << hostVars, dirs, cwd, private, reactor, pc, payload, cmd, exc,
                  changes, opened, closes, login, iter, sent, answer, dres, log >>

\* The master accepts the credentials.
LoginOk(r) ==
  /\ ReactorFree
  /\ conn[r] = "up"
  /\ login[r] = "pending"
  /\ login' = [login EXCEPT ![r] = "ok"]
  /\ Connected(r)
  /\ UNCHANGED << hostVars, dirs, cwd, private, reactor, pc, payload, cmd, exc,
                  changes, opened >>

\* The master rejects the credentials.
LoginRejected(r) ==
  /\ ReactorFree
  /\ conn[r] = "up"
  /\ login[r] = "pending"
  /\ login' = [login EXCEPT ![r] = "rejected"]
  /\ ConnectFailed(r)
  /\ UNCHANGED << hostVars, dirs, cwd, private, reactor, pc, payload, cmd, exc,
                  changes, conn, opened >>

\* The master acknowledges call i.
Ack(r, i) ==
  /\ ReactorFree
  /\ conn[r] = "up"
  /\ i \in DOMAIN answer[r]
  /\ answer[r][i] = "sent"
  /\ AddChange(r, [answer[r] EXCEPT ![i] = "acked"])
  /\ UNCHANGED << hostVars, dirs, cwd, private, reactor, pc, payload, cmd, exc,
                  changes, opened, login >>

\* The master answers call i with an error.
Reject(r, i) ==
  /\ ReactorFree
  /\ conn[r] = "up"
  /\ i \in DOMAIN answer[r]
  /\ answer[r][i] = "sent"
  /\ CallFailed(r, [answer[r] EXCEPT ![i] = "rejected"])
  /\ UNCHANGED << hostVars, dirs, cwd, private, reactor, pc, payload, cmd, exc,
                  changes, opened, login >>

\* The transport drops the connection: a pending login fails, and so does
\* every call that has not been answered.
Lost(r) ==
  /\ ReactorFree
  /\ conn[r] = "up"
  /\ LET ans == [i \in DOMAIN answer[r] |->
                   IF answer[r][i] = "sent" THEN "lost" ELSE answer[r][i]]
     IN IF login[r] = "pending"
          THEN /\ login' = [login EXCEPT ![r] = "failed"]
               /\ conn' = [conn EXCEPT ![r] = "lost"]
               /\ ConnectFailed(r)
          ELSE IF ans # answer[r]
            THEN /\ dres' = [dres EXCEPT ![r] = "failure"]
                 /\ answer' = [answer EXCEPT ![r] = ans]
                 /\ conn' = [conn EXCEPT ![r] = "lost"]
                 /\ UNCHANGED << closes, login, iter, sent, log >>
            ELSE /\ conn' = [conn EXCEPT ![r] = "lost"]
                 /\ UNCHANGED << closes, login, iter, sent, answer, dres, log >>
  /\ UNCHANGED << hostVars, dirs, cwd, private, reactor, pc, payload, cmd, exc,
                  changes, opened >>

\* --------------------------------------------------------------- specification

\* The root directory as it is on disk when the process starts.
RootOnDisk == IF rootAbs THEN RootPath ELSE StartDir \o RootPath

\* The builders of the master.
Builders == {"b1", "b2"}

\* A master without a TwitterNotifier.
NoNotifier ==
  [ mode |-> "all", hasBuilders |-> FALSE, builders |-> {},
    hasCategories |-> FALSE, categories |-> {} ]

\* The listener before the first request.
InitRequests ==
  /\ cwd = StartDir
  /\ private = FALSE
  /\ reactor = 0
  /\ pc = [r \in Req |-> "idle"]
  /\ payload = [r \in Req |-> NoPayload]
  /\ cmd = [r \in Req |-> NoCmd]
  /\ exc = [r \in Req |-> "none"]
  /\ changes = [r \in Req |-> <<>>]
  /\ conn = [r \in Req |-> "none"]
  /\ opened = [r \in Req |-> 0]
  /\ closes = [r \in Req |-> 0]
  /\ login = [r \in Req |-> "none"]
  /\ iter = [r \in Req |-> 0]
  /\ sent = [r \in Req |-> <<>>]
  /\ answer = [r \in Req |-> <<>>]
  /\ dres = [r \in Req |-> "none"]
  /\ log = [r \in Req |-> <<>>]

InitProgram ==
  /\ rootAbs \in BOOLEAN
  /\ dirs \in { {StartDir},
                {StartDir} \cup Prefixes(RootOnDisk),
                {StartDir} \cup Prefixes(RootOnDisk \o <<"r1">>) }
  /\ InitRequests
  /\ notifier = NoNotifier
  /\ builds = [b \in Builders |-> <<>>]

\* One request, with every payload shape, on the reactor thread.
Init ==
  /\ threaded = FALSE
  /\ reqs = {1}
  /\ rich = TRUE
  /\ InitProgram

\* NumReq requests that push to a branch, on the reactor thread or in
\* parallel threads.
InitConc ==
  /\ threaded \in BOOLEAN
  /\ reqs = Req
  /\ rich = FALSE
  /\ InitProgram

\* NumReq requests that push to a branch, on the reactor thread, as main
\* runs the listener.
InitReactor ==
  /\ threaded = FALSE
  /\ reqs = Req
  /\ rich = FALSE
  /\ InitProgram

Next ==
  \E r \in Req :
    \/ Receive(r)
    \/ SyncStart(r)
    \/ Launch(r)
    \/ \E status \in {0, 1} : CmdExit(r, status)
    \/ ProcessChange(r)
    \/ ConnectFail(r)
    \/ ConnectOk(r)
    \/ LoginOk(r)
    \/ LoginRejected(r)
    \/ \E i \in 1..MaxCommits : Ack(r, i)
    \/ \E i \in 1..MaxCommits : Reject(r, i)
    \/ Lost(r)

Spec == Init /\ [][Next]_vars

SpecConc == InitConc /\ [][Next]_vars

SpecReactor == InitReactor /\ [][Next]_vars

\* The steps with a master that is reachable, accepts the login and
\* acknowledges every call.
NextGood ==
  \E r \in Req :
    \/ Receive(r)
    \/ SyncStart(r)
    \/ Launch(r)
    \/ \E status \in {0, 1} : CmdExit(r, status)
    \/ ProcessChange(r)
    \/ ConnectOk(r)
    \/ LoginOk(r)
    \/ \E i \in 1..MaxCommits : Ack(r, i)

\* render_POST runs to its end once it has started (the git command
\* exits), and the reactor runs every callback whose event has come in:
\* the connection, the login answer, the acknowledgment of a call.
FairGood ==
  \A r \in Req :
    /\ WF_vars(SyncStart(r) \/ Launch(r) \/ ProcessChange(r)
                  \/ \E status \in {0, 1} : CmdExit(r, status))
    /\ WF_vars(ConnectOk(r))
    /\ WF_vars(LoginOk(r))
    /\ WF_vars(\E i \in 1..MaxCommits : Ack(r, i))

SpecGood == Init /\ [][NextGood]_vars /\ FairGood

\* -------------------------------------------------------------------- outcomes

\* render_POST has returned for the request, normally or through its
\* except clause.
Returned(r) == pc[r] \in {"returned", "caught"}

\* process_change has run for the request: the sync command exited with
\* status 0 and the request has left the state before process_change.
Extracted(r) == cmd[r].status = 0 /\ Returned(r)

\* The request ended in Failed: render_POST caught an exception, or the
\* Deferred chain of the delivery ended with a failure.
Failed(r) == pc[r] = "caught" \/ dres[r] = "failure"

\* The request ended in Delivered: process_change returned normally and
\* there was nothing to send or the Deferred chain ended without a failure.
Delivered(r) == pc[r] = "returned" /\ dres[r] \in {"none", "success"}

\* Nothing was done on the network for the request.
NoNetwork(r) ==
  /\ opened[r] = 0
  /\ conn[r] = "none"
  /\ login[r] = "none"
  /\ sent[r] = <<>>

\* The sync of the request failed: the root directory is missing, or the
\* clone or fetch command exited with a nonzero status.
SyncFailed(r) == exc[r] = "RootMissing" \/ cmd[r].status > 0

\* The calls of the request that have been issued and not yet answered.
Outstanding(r) == { i \in DOMAIN answer[r] : answer[r][i] = "sent" }

\* A revision that is the all-zero sentinel; one that has a nonzero digit.
AllZero(rev) == Len(rev) >= 1 /\ \A i \in 1..Len(rev) : rev[i] = "0"

NonZero(rev) == \E i \in 1..Len(rev) : rev[i] # "0"

Elements(s) == { s[i] : i \in 1..Len(s) }

\* ---------------------------------------------------------------------- claims

\* C1: during the delivery of one batch at most one addChange call is
\* outstanding, call i+1 is issued only once call i has been acknowledged,
\* and the calls issued are the extracted changes in their order.
C1_SequentialDelivery ==
  \A r \in Req :
    /\ Cardinality(Outstanding(r)) <= 1
    /\ Len(answer[r]) = Len(sent[r])
    /\ \A i \in DOMAIN answer[r] : i > 1 => answer[r][i - 1] = "acked"
    /\ Len(sent[r]) <= Len(changes[r])
    /\ \A i \in DOMAIN sent[r] : sent[r][i] = changes[r][i]

\* C1 witness: the second call of a batch is outstanding after the first
\* was acknowledged.
C1_Witness ==
  \E r \in Req : Len(changes[r]) = 2 /\ answer[r] = <<"acked", "sent">>

\* C2: once the delivery of a batch has terminated (its Deferred chain has a
\* result) its connection is not left open, and it was closed at most once
\* by the client.
C2_ConnectionClosedOnEveryExit ==
  \A r \in Req :
    dres[r] \in {"success", "failure"} => conn[r] # "up" /\ closes[r] <= 1

\* C3: if the master rejects record k, no record after k is transmitted for
\* that event, on this or any other connection: the calls issued end at k
\* and the event has opened one connection only.
C3_NothingSentAfterReject ==
  \A r \in Req : \A k \in DOMAIN answer[r] :
    answer[r][k] = "rejected" =>
      /\ Len(sent[r]) = k
      /\ Outstanding(r) = {}
      /\ opened[r] = 1

\* C3 witness: the first record of a batch of two was rejected, and the
\* connection has since gone away.
C3_Witness ==
  \E r \in Req :
    /\ Len(changes[r]) = 2
    /\ answer[r] = <<"rejected">>
    /\ conn[r] = "lost"

\* C4: every failed delivery is logged as an error by the program, and for
\* a rejected record the logged error names that record's revision.
C4_DeliveryErrorsLogged ==
  \A r \in Req :
    dres[r] = "failure" =>
      /\ \E e \in Elements(log[r]) : e[1] = "error"
      /\ \A k \in DOMAIN answer[r] :
           answer[r][k] = "rejected" =>
             \E e \in Elements(log[r]) :
               e[1] = "error" /\ e[3] = sent[r][k].revision

\* C5: a payload whose ref is not refs/heads/<name> is filtered:
\* process_change returns normally, the request ends Delivered, and no
\* connection is opened.
C5_NonBranchRefFiltered ==
  \A r \in Req :
    (Extracted(r) /\ payload[r].form = "ok" /\ ~BranchMatch(payload[r].ref)) =>
      /\ pc[r] = "returned"
      /\ Delivered(r)
      /\ changes[r] = <<>>
      /\ NoNetwork(r)

\* C6: on a branch ref with the all-zero after revision the extracted
\* sequence is empty whatever the commits are, and whenever the extracted
\* sequence is empty the request ends Delivered with nothing done on the
\* network.
C6_DeletedBranchDeliversNothing ==
  \A r \in Req :
    /\ ( /\ Extracted(r)
         /\ payload[r].form = "ok"
         /\ BranchMatch(payload[r].ref)
         /\ AllZero(payload[r].after) )
       => changes[r] = <<>> /\ pc[r] = "returned"
    /\ (pc[r] = "returned" /\ changes[r] = <<>>) => Delivered(r) /\ NoNetwork(r)

\* C6 witness: a branch deletion that carries commits has been processed.
C6_Witness ==
  \E r \in Req :
    /\ pc[r] = "returned"
    /\ BranchMatch(payload[r].ref)
    /\ AllZero(payload[r].after)
    /\ Len(payload[r].commits) = MaxCommits

\* C7: N commits on a branch ref with a nonzero after revision give N
\* changes, change j carrying the revision of commit j, and the changes are
\* handed to the master in that order.
C7_ExtractionKeepsCommitOrder ==
  \A r \in Req :
    ( /\ Extracted(r)
      /\ payload[r].form = "ok"
      /\ BranchMatch(payload[r].ref)
      /\ NonZero(payload[r].after) )
    => /\ pc[r] = "returned"
       /\ Len(changes[r]) = Len(payload[r].commits)
       /\ \A j \in DOMAIN changes[r] :
            changes[r][j].revision = payload[r].commits[j].id
       /\ \A j \in DOMAIN sent[r] :
            sent[r][j].revision = payload[r].commits[j].id

\* C7 witness: two different commits have both been sent.
C7_Witness ==
  \E r \in Req :
    /\ Len(payload[r].commits) = 2
    /\ payload[r].commits[1].id # payload[r].commits[2].id
    /\ Len(sent[r]) = 2

\* C8: the files of every change are the union of the commit's added,
\* modified and removed paths, each path occurring once.
C8_FilesDeduplicated ==
  \A r \in Req : \A j \in DOMAIN changes[r] :
    LET f == changes[r][j].files
        c == payload[r].commits[j]
    IN /\ Elements(f) = Elements(c.added) \cup Elements(c.modified)
                          \cup Elements(c.removed)
       /\ \A a, b \in DOMAIN f : a # b => f[a] # f[b]

\* C9: two requests for the same repository never have their clone or fetch
\* commands running on the same mirror path at the same time.
C9_SyncsSerializedPerPath ==
  \A r1, r2 \in Req :
    ( /\ r1 # r2
      /\ payload[r1].repo = payload[r2].repo
      /\ pc[r1] = "running"
      /\ pc[r2] = "running" )
    => cmd[r1].path # cmd[r2].path

\* C10: a request whose sync failed ends Failed in the except clause of
\* render_POST, with no change built and nothing done on the network.
C10_SyncFailureStopsPipeline ==
  \A r \in Req :
    SyncFailed(r) =>
      /\ pc[r] = "caught"
      /\ Failed(r)
      /\ changes[r] = <<>>
      /\ NoNetwork(r)

\* C10 witness: the fetch of a push with commits on a branch has failed.
C10_Witness ==
  \E r \in Req :
    /\ cmd[r].kind = "fetch"
    /\ cmd[r].status = 1
    /\ exc[r] = "FetchFailed"
    /\ BranchMatch(payload[r].ref)
    /\ NonZero(payload[r].after)
    /\ payload[r].commits # <<>>

\* ------------------------------------------------------------- the HTTP layer

\* What render_POST returns: it has no return statement on any path, so
\* the value is None once it has returned.
RenderReturn(r) == IF Returned(r) THEN "None" ELSE "pending"

\* The status twisted.web answers a render result with: a string is
\* written with status 200, anything else is replaced by the error page
\* "Request did not return a string" with status 500.
HttpStatus(ret) == IF ret = "str" THEN 200 ELSE 500

\* C11: every exception of a request is caught in render_POST and frees
\* the reactor, and on the reactor thread a well-formed request that
\* comes after failed requests is still taken through its pipeline: it
\* does not fail for a missing root directory while the root directory is
\* on disk.
C11_FailuresAreContained ==
  \A r \in Req :
    /\ exc[r] # "none" => pc[r] = "caught" /\ reactor # r
    /\ ( /\ ~threaded
         /\ Returned(r)
         /\ payload[r].form = "ok"
         /\ RootOnDisk \in dirs
         /\ \E q \in Req \ {r} : Failed(q)
         /\ \A q \in Req \ {r} : pc[q] = "idle" \/ Failed(q) )
       => exc[r] # "RootMissing"

\* C12: every request that has returned is answered with a success status.
C12_AlwaysHttpSuccess ==
  \A r \in Req : Returned(r) => HttpStatus(RenderReturn(r)) = 200

\* ------------------------------------------------------- concurrent deliveries

\* The delivery of r is in flight: logged in, with a call not yet answered.
InFlight(r) == conn[r] = "up" /\ login[r] = "ok" /\ Outstanding(r) # {}

\* C13: an event with a non-empty batch opens exactly one connection and
\* logs in once on it, an event without changes opens none, and whatever
\* the interleaving of the answers of different events, the records sent
\* on the connection of an event are the first records of that event's own
\* batch, in the order of its own payload's commits.
C13_OneSessionPerEvent ==
  \A r \in Req :
    /\ opened[r] <= 1
    /\ (pc[r] = "returned" /\ changes[r] # <<>>) <=> opened[r] = 1
    /\ login[r] # "none" <=> opened[r] = 1
    /\ conn[r] # "none" <=> opened[r] = 1
    /\ Len(sent[r]) <= Len(changes[r])
    /\ sent[r] = SubSeq(changes[r], 1, Len(sent[r]))
    /\ \A i \in DOMAIN sent[r] :
         /\ i <= Len(payload[r].commits)
         /\ sent[r][i] = MakeChange(payload[r].commits[i], BranchGroup(payload[r].ref))

\* Two events with different batches are being delivered at once, and an
\* answer of one has come in between the calls of the other.
C13_Witness ==
  \E r, q \in Req :
    /\ r # q
    /\ InFlight(r) /\ InFlight(q)
    /\ changes[r] # changes[q]
    /\ answer[r] = <<"acked", "sent">>
    /\ answer[q] = <<"sent">>

\* C14: when the connection cannot be established or the login is refused
\* or lost, no addChange call is issued for any record of the batch and the
\* delivery ends in failure with the error logged; a refused connection
\* fails the login Deferred without any login having been answered.
C14_NoCallAfterFailedSetup ==
  \A r \in Req :
    /\ login[r] \in {"rejected", "failed"} =>
         /\ sent[r] = <<>> /\ iter[r] = 0 /\ answer[r] = <<>>
         /\ dres[r] = "failure"
         /\ LogEntry("error", "Could not connect to master: ", "") \in Elements(log[r])
    /\ conn[r] = "refused" => login[r] = "failed"
    /\ sent[r] # <<>> => login[r] = "ok"

\* The master has refused the login of a delivery with two changes on an
\* established connection.
C14_Witness ==
  \E r \in Req :
    /\ login[r] = "rejected"
    /\ conn[r] = "up"
    /\ Len(changes[r]) = 2

\* ------------------------------------------------------------------ the mirror

\* The mirror of a repository as it is on disk: the configured root, taken
\* from the directory the process was started in, and the repository name.
MirrorOnDisk(repo) == RootOnDisk \o <<repo>>

\* C15: the step of a request through github_sync starts fetch if the
\* mirror of its repository is on disk, clone if the root is on disk and
\* the mirror is not, and no command, failing with RootMissing, if the root
\* is not on disk; a clone that exits with status 0 has put the mirror on
\* disk, and nothing is ever removed, so later syncs of that repository
\* fetch.
C15_CommandByPresence ==
  [][ \A r \in Req :
        /\ (pc[r] = "parsed" /\ pc'[r] # "parsed") =>
             LET mirror == MirrorOnDisk(payload[r].repo)
             IN /\ cmd'[r].kind = "fetch" <=> mirror \in dirs
                /\ cmd'[r].kind = "clone" <=> (RootOnDisk \in dirs /\ mirror \notin dirs)
                /\ exc'[r] = "RootMissing" <=> RootOnDisk \notin dirs
        /\ (pc[r] = "running" /\ cmd[r].kind = "clone" /\ cmd'[r].status = 0) =>
             MirrorOnDisk(payload[r].repo) \in dirs'
        /\ dirs \subseteq dirs' ]_vars

\* C16: on the reactor thread, where render_POST runs from the store of
\* self.private to the end of github_sync without another request in
\* between, the URL of every clone is the SSH form exactly when the payload
\* of the request that started the clone is private, whatever flags the
\* requests before and after it carry.
C16_CloneUrlFollowsOwnFlag ==
  \A r \in Req :
    cmd[r].kind = "clone" =>
      /\ cmd[r].url[1] = "git@" <=> payload[r].private
      /\ cmd[r].url[1] = "git://" <=> ~payload[r].private
      /\ cmd[r].url = IF payload[r].private
                        THEN <<"git@", "github.com", ":", payload[r].owner, "/",
                               payload[r].repo, ".git">>
                        ELSE <<"git://", "github.com", "/", payload[r].owner, "/",
                               payload[r].repo, ".git">>

\* Two requests with differing flags have each started a clone, one for a
\* private payload with the SSH form and one for a public payload with the
\* anonymous form.
C16_Witness ==
  \E r, q \in Req :
    /\ r # q
    /\ cmd[r].kind = "clone" /\ payload[r].private
    /\ cmd[q].kind = "clone" /\ ~payload[q].private
    /\ cmd[r].url[1] = "git@"
    /\ cmd[q].url[1] = "git://"

\* ---------------------------------------------------------------- statelessness

\* What github_sync does for a payload when the process is in working
\* directory c and the resource holds the flag priv: the exception it
\* raises before any command, or the command it starts.
SyncOutcome(c, priv, p) ==
  LET repodir == RepoDir(p.repo)
      inRepo == Resolve(c, repodir)
  IN IF Resolve(c, RootPath) \notin dirs
       THEN [exc |-> "RootMissing", kind |-> "none", url |-> <<>>]
       ELSE IF inRepo \in dirs
         THEN IF Resolve(inRepo, repodir) \in dirs
                THEN [exc |-> "none", kind |-> "fetch", url |-> <<>>]
                ELSE [exc |-> "OSError", kind |-> "none", url |-> <<>>]
         ELSE [exc |-> "none", kind |-> "clone",
               url |-> CloneUrl(priv, p.owner, p.repo)]

\* What the step of request r through github_sync has done.
SyncDone(r) == [exc |-> exc'[r], kind |-> cmd'[r].kind, url |-> cmd'[r].url]

\* C17: the step of a request through github_sync does what it would do
\* in a process that has served no request before: in the directory the
\* listener was started in, with the flag of the request's own payload.
C17_StatelessAcrossRequests ==
  [][ \A r \in Req :
        (pc[r] = "parsed" /\ pc'[r] # "parsed") =>
          SyncDone(r) = SyncOutcome(StartDir, payload[r].private, payload[r]) ]_vars

\* -------------------------------------------------------------------- liveness

\* The master has received exactly the batch of r: every change was sent
\* once, in order, and every call was acknowledged.
ReceivedAll(r) ==
  /\ sent[r] = changes[r]
  /\ Len(answer[r]) = Len(changes[r])
  /\ \A i \in DOMAIN answer[r] : answer[r][i] = "acked"

\* C18: with a master that accepts the login and acknowledges every call,
\* a delivery that has started ends: the master has received exactly the
\* extracted list and the connection is closed; and the connection is
\* never closed before the last acknowledgment, with a call outstanding.
C18_CooperativeDeliveryCompletes ==
  /\ \A r \in Req :
       (dres[r] = "pending") ~>
         (dres[r] = "success" /\ conn[r] = "closed" /\ ReceivedAll(r))
  /\ [](\A r \in Req :
          conn[r] = "closed" =>
            Outstanding(r) = {} /\ ReceivedAll(r) /\ closes[r] = 1)

\* A delivery of the largest batch has ended with every change
\* acknowledged and the connection closed.
C18_Witness ==
  \E r \in Req :
    /\ dres[r] = "success"
    /\ Len(changes[r]) = MaxCommits
    /\ conn[r] = "closed"
    /\ closes[r] = 1
    /\ ReceivedAll(r)

\* ------------------------------------------------------------- TwitterNotifier

\* The build results twitter.py imports from buildbot.status.builder.
Results == {"SUCCESS", "WARNINGS", "FAILURE"}

\* The source stamp of a build: none, one without a revision, one with a
\* revision.
Stamps == {"none", "norev", "rev"}

\* The category of a builder.
Category(b) == IF b = "b1" THEN "c1" ELSE "c2"

\* The notifiers __init__ constructs: the mode is one of the three the
\* assert lets through, and builders and categories are not both given.
Notifiers ==
  { [ mode |-> m, hasBuilders |-> f[1], builders |-> f[2],
      hasCategories |-> f[3], categories |-> f[4] ] :
      m \in {"all", "failing", "problem"},
      f \in { <<FALSE, {}, FALSE, {}>>,
              <<TRUE, {"b1"}, FALSE, {}>>,
              <<FALSE, {}, TRUE, {"c1"}>> } }

\* builderAdded: the notifier subscribes to a builder unless categories
\* are given and the builder's category is not among them.
Watched(b) == ~notifier.hasCategories \/ Category(b) \in notifier.categories

\* The builders/categories filter at the head of buildFinished.
PassesFilter(b) ==
  /\ notifier.hasBuilders => b \in notifier.builders
  /\ notifier.hasCategories => Category(b) \in notifier.categories

\* buildMessage: "sent" when it reaches deferToThread(_sendTwitter, ...),
\* "raised" when it ends in UnboundLocalError before that.  With a
\* revision on the source stamp the statement "source += ss.revision"
\* reads the local source, which is never assigned; for a result other
\* than SUCCESS and WARNINGS the last branch assigns res, and the message
\* is formatted from result, which is then not assigned.
BuildMessage(results, ss) ==
  IF ss = "rev"
    THEN "raised"
    ELSE IF results \in {"SUCCESS", "WARNINGS"}
      THEN "sent"
      ELSE "raised"

\* buildFinished for a build of builder b with the given result; prev is
\* the result of the builder's previous build, "none" if there is none.
\* "ignored" is a return before buildMessage.
BuildFinishedOutcome(b, results, ss, prev) ==
  IF ~PassesFilter(b)
    THEN "ignored"
    ELSE IF notifier.mode = "failing" /\ results # "FAILURE"
      THEN "ignored"
      ELSE IF notifier.mode = "passing" /\ results # "SUCCESS"
        THEN "ignored"
        ELSE IF notifier.mode = "problem"
                  /\ (results # "FAILURE" \/ (prev # "none" /\ prev = "FAILURE"))
          THEN "ignored"
          ELSE BuildMessage(results, ss)

\* getPreviousBuild().getResults() for the next build of builder b.
PreviousResult(b) ==
  IF builds[b] = <<>> THEN "none" ELSE builds[b][Len(builds[b])].result

\* A build of a watched builder finishes and the master calls
\* buildFinished.
BuildFinished(b, results, ss) ==
  /\ Watched(b)
  /\ Len(builds[b]) < MaxBuilds
  /\ builds' = [builds EXCEPT ![b] =
                  Append(@, [ result |-> results, ss |-> ss,
                              outcome |-> BuildFinishedOutcome(b, results, ss,
                                                               PreviousResult(b)) ])]
  /\ UNCHANGED << threaded, reqs, rich, rootAbs, notifier, dirs, cwd, private,
                  reactor, pc, payload, cmd, exc, changes, deliveryVars, log >>

\* A master with a TwitterNotifier and no build finished yet; the webhook
\* listener is not part of it.
InitTwitter ==
  /\ threaded = FALSE
  /\ reqs = {}
  /\ rich = FALSE
  /\ rootAbs = TRUE
  /\ dirs = {StartDir}
  /\ InitRequests
  /\ notifier \in Notifiers
  /\ builds = [b \in Builders |-> <<>>]

NextTwitter ==
  \E b \in Builders, results \in Results, ss \in Stamps :
    BuildFinished(b, results, ss)

SpecTwitter == InitTwitter /\ [][NextTwitter]_vars

\* C19: in mode 'failing', among the finished builds that pass the filter,
\* a message has been handed to _sendTwitter for exactly the builds with
\* result FAILURE.
C19_FailingModeSendsFailures ==
  notifier.mode = "failing" =>
    \A b \in Builders :
      \A i \in DOMAIN builds[b] :
        PassesFilter(b) =>
          (builds[b][i].outcome = "sent" <=> builds[b][i].result = "FAILURE")

\* C20: in mode 'problem', buildFinished goes on to buildMessage for a
\* finished build of a watched builder exactly when the build's result is
\* FAILURE and the builder has a previous build whose result is SUCCESS.
C20_ProblemModeSendsNewFailures ==
  notifier.mode = "problem" =>
    \A b \in Builders :
      \A i \in DOMAIN builds[b] :
        PassesFilter(b) =>
          (builds[b][i].outcome # "ignored" <=>
             /\ builds[b][i].result = "FAILURE"
             /\ i > 1
             /\ builds[b][i - 1].result = "SUCCESS")

====
